---- MODULE Spec2Model ----
(***************************************************************************)
(* Model of the vehicle carbon-footprint estimator                         *)
(* (src/src/vehicle_estimator.py) and of the two handlers of the           *)
(* "Vehicle Estimator" page of the dashboard (src/streamlit_app/app.py).   *)
(*                                                                         *)
(* Numbers are exact rationals [n, d] in lowest terms with d > 0.  Python  *)
(* computes with binary floating point; the model keeps the order of the   *)
(* operations (division first, then the two multiplications) and the       *)
(* faults (division by zero), but not the rounding.                        *)
(***************************************************************************)
EXTENDS Integers, FiniteSets, Sequences, TLC

(***************************************************************************)
(* Bounds of the input sets.                                               *)
(***************************************************************************)
MaxEconomy  == 2
MaxDistance == 1
MaxAge      == 1
MaxFuel     == 1

\* The independent callers that each hold one VehicleEstimator object.
Callers == {"a", "b"}

\* The fuel types of the emission-factor table and one that is not in it.
TableFuels == {"Petrol", "Diesel", "CNG", "Electric", "Hybrid"}
FuelTypes  == TableFuels \cup {"LPG"}

\* Arguments the callers pass: a fuel economy of 0 and one that does not
\* divide the distances, and each distance with its double.
VehicleTypes   == {"Car"}
EngineSizes    == {1500}
FuelEconomies  == {0, MaxEconomy}
Distances      == {0, MaxDistance, 2 * MaxDistance}
Ages           == 0..MaxAge
TripDistances  == {-1} \cup Distances
FuelAvailables == {0, MaxFuel}

(***************************************************************************)
(* Rational arithmetic standing for Python's float arithmetic.             *)
(***************************************************************************)
Abs(x) == IF x < 0 THEN -x ELSE x

RECURSIVE GCD(_, _)
GCD(a, b) == IF b = 0 THEN a ELSE GCD(b, a % b)

\* n/d in lowest terms with a positive denominator (d # 0).
Norm(n, d) ==
    LET s == IF d < 0 THEN -1 ELSE 1
        g == GCD(Abs(n), Abs(d))
    IN  [n |-> (s * n) \div g, d |-> (s * d) \div g]

Rat(n, d)    == Norm(n, d)
RatInt(i)    == [n |-> i, d |-> 1]
RatAdd(a, b) == Norm(a.n * b.d + b.n * a.d, a.d * b.d)
RatSub(a, b) == Norm(a.n * b.d - b.n * a.d, a.d * b.d)
RatMul(a, b) == Norm(a.n * b.n, a.d * b.d)
\* a / b for b # 0; the caller raises ZeroDivisionError for b = 0.
RatDiv(a, b) == Norm(a.n * b.d, a.d * b.n)
RatLeq(a, b) == a.n * b.d <= b.n * a.d
RatLt(a, b)  == a.n * b.d < b.n * a.d
RatMax(a, b) == IF RatLeq(b, a) THEN a ELSE b
\* int(x): truncation towards zero.
RatTrunc(a)  == IF a.n >= 0 THEN a.n \div a.d ELSE -((-a.n) \div a.d)

(***************************************************************************)
(* Outcomes of a call: a number, None, or an exception that escapes.       *)
(***************************************************************************)
None      == [kind |-> "None", n |-> 0, d |-> 1, exc |-> ""]
Num(q)    == [kind |-> "num", n |-> q.n, d |-> q.d, exc |-> ""]
Raise(e)  == [kind |-> "raise", n |-> 0, d |-> 1, exc |-> e]
IsNum(o)  == o.kind = "num"
Val(o)    == [n |-> o.n, d |-> o.d]

VARIABLES
    profiles,   \* caller -> the VehicleEstimator object it constructed
    ret,        \* the last call of a method of an estimator and its outcome
    shown       \* what the last button click of the dashboard displayed

vars == <<profiles, ret, shown>>

(***************************************************************************)
(* VehicleEstimator                                                        *)
(***************************************************************************)
\* Variant: the table gives Electric a non-zero factor.
emission_factors_electric_nonzero ==
    [f \in TableFuels |->
        CASE f = "Petrol"   -> Rat(231, 100)
          [] f = "Diesel"   -> Rat(268, 100)
          [] f = "CNG"      -> Rat(275, 100)
          [] f = "Electric" -> Rat(5, 100)
          [] f = "Hybrid"   -> Rat(15, 10)]

emission_factors ==
    [f \in TableFuels |->
        CASE f = "Petrol"   -> Rat(231, 100)
          [] f = "Diesel"   -> Rat(268, 100)
          [] f = "CNG"      -> Rat(275, 100)
          [] f = "Electric" -> Rat(0, 1)
          [] f = "Hybrid"   -> Rat(15, 10)]

\* Variant: the age factor is 1 - age * 0.01.
__init___age_discount(vehicle_type, fuel_type, engine_size, fuel_economy, distance_traveled, vehicle_age) ==
    [vehicle_type      |-> vehicle_type,
     fuel_type         |-> fuel_type,
     engine_size       |-> engine_size,
     fuel_economy      |-> fuel_economy,
     distance_traveled |-> distance_traveled,
     vehicle_age       |-> vehicle_age,
     emission_factors  |-> emission_factors,
     age_factor        |-> RatSub(RatInt(1),
                                  RatMul(RatInt(vehicle_age), Rat(1, 100)))]

__init__(vehicle_type, fuel_type, engine_size, fuel_economy, distance_traveled, vehicle_age) ==
    [vehicle_type      |-> vehicle_type,
     fuel_type         |-> fuel_type,
     engine_size       |-> engine_size,
     fuel_economy      |-> fuel_economy,
     distance_traveled |-> distance_traveled,
     vehicle_age       |-> vehicle_age,
     emission_factors  |-> emission_factors,
     age_factor        |-> RatAdd(RatInt(1),
                                  RatMul(RatInt(vehicle_age), Rat(1, 100)))]

\* x / y: Python raises ZeroDivisionError for y = 0, for ints and floats alike.
\* The outcome is a number or the raised exception.
TrueDiv(x, y) ==
    IF y = 0 THEN Raise("ZeroDivisionError")
             ELSE Num(RatDiv(RatInt(x), RatInt(y)))

\* Variant: an unknown fuel type gives 0 instead of None.
calculate_lifetime_emissions_zero_default(self) ==
    IF self.fuel_type \in DOMAIN self.emission_factors
    THEN LET q == TrueDiv(self.distance_traveled, self.fuel_economy)
         IN  IF ~IsNum(q) THEN q
             ELSE Num(RatMul(RatMul(Val(q),
                                    self.emission_factors[self.fuel_type]),
                             self.age_factor))
    ELSE Num(RatInt(0))

\* Variant: floor division (//) instead of true division.
calculate_lifetime_emissions_floordiv(self) ==
    IF self.fuel_type \in DOMAIN self.emission_factors
    THEN IF self.fuel_economy = 0 THEN Raise("ZeroDivisionError")
         ELSE Num(RatMul(RatMul(RatInt(self.distance_traveled
                                         \div self.fuel_economy),
                                self.emission_factors[self.fuel_type]),
                         self.age_factor))
    ELSE None

\* Variant: the age factor is added instead of multiplied.
calculate_lifetime_emissions_add_age(self) ==
    IF self.fuel_type \in DOMAIN self.emission_factors
    THEN LET q == TrueDiv(self.distance_traveled, self.fuel_economy)
         IN  IF ~IsNum(q) THEN q
             ELSE Num(RatAdd(RatMul(Val(q),
                                    self.emission_factors[self.fuel_type]),
                             self.age_factor))
    ELSE None

\* Variant: the age factor is left out of the product.
calculate_lifetime_emissions_no_age(self) ==
    IF self.fuel_type \in DOMAIN self.emission_factors
    THEN LET q == TrueDiv(self.distance_traveled, self.fuel_economy)
         IN  IF ~IsNum(q) THEN q
             ELSE Num(RatMul(Val(q), self.emission_factors[self.fuel_type]))
    ELSE None

calculate_lifetime_emissions(self) ==
    IF self.fuel_type \in DOMAIN self.emission_factors
    THEN LET q == TrueDiv(self.distance_traveled, self.fuel_economy)
         IN  IF ~IsNum(q) THEN q
             ELSE Num(RatMul(RatMul(Val(q),
                                    self.emission_factors[self.fuel_type]),
                             self.age_factor))
    ELSE None

\* Variant: the guard is distance_to_travel >= 0.
calculate_next_trip_emissions_geq(self, distance_to_travel, fuel_available) ==
    IF self.fuel_type \in DOMAIN self.emission_factors /\ distance_to_travel >= 0
    THEN LET q == TrueDiv(distance_to_travel, self.fuel_economy)
         IN  IF ~IsNum(q) THEN q
             ELSE Num(RatMul(RatMul(Val(q),
                                    self.emission_factors[self.fuel_type]),
                             self.age_factor))
    ELSE None

\* Variant: the trip adds to the distance the vehicle has traveled.
calculate_next_trip_emissions_cumulative(self, distance_to_travel, fuel_available) ==
    IF self.fuel_type \in DOMAIN self.emission_factors /\ distance_to_travel > 0
    THEN LET q == TrueDiv(self.distance_traveled + distance_to_travel,
                          self.fuel_economy)
         IN  IF ~IsNum(q) THEN q
             ELSE Num(RatMul(RatMul(Val(q),
                                    self.emission_factors[self.fuel_type]),
                             self.age_factor))
    ELSE None

calculate_next_trip_emissions(self, distance_to_travel, fuel_available) ==
    IF self.fuel_type \in DOMAIN self.emission_factors /\ distance_to_travel > 0
    THEN LET q == TrueDiv(distance_to_travel, self.fuel_economy)
         IN  IF ~IsNum(q) THEN q
             ELSE Num(RatMul(RatMul(Val(q),
                                    self.emission_factors[self.fuel_type]),
                             self.age_factor))
    ELSE None

(***************************************************************************)
(* Calls by the independent callers.                                       *)
(***************************************************************************)
NoCall == [op |-> "none", self |-> "", distance_to_travel |-> 0,
           fuel_available |-> 0, result |-> None]

\* The page before any button was clicked.
NothingShown ==
    [tab |-> "none", estimator |-> <<>>, distance_to_travel |-> 0,
     fuel_available |-> 0, emissions |-> None, success |-> FALSE,
     trees |-> 0, eco_score |-> RatInt(0),
     fuel_needed |-> RatInt(0), fuel_status |-> ""]

Init ==
    /\ profiles = [c \in {} |-> None]
    /\ ret = NoCall
    /\ shown = NothingShown

\* The arguments of the example usage: VehicleEstimator('Car', 'Petrol', 1500,
\* 15, 50000, 5).
ExampleUsage == <<"Car", "Petrol", 1500, 15, 50000, 5>>

\* The argument lists the callers construct an object with.
ConstructorArgs ==
    (VehicleTypes \X FuelTypes \X EngineSizes \X FuelEconomies
        \X Distances \X Ages) \cup {ExampleUsage}

Construct(c) ==
    /\ c \notin DOMAIN profiles
    /\ \E a \in ConstructorArgs :
          profiles' = [x \in DOMAIN profiles \cup {c} |->
                          IF x = c
                          THEN __init__(a[1], a[2], a[3], a[4], a[5], a[6])
                          ELSE profiles[x]]
    /\ UNCHANGED <<ret, shown>>

CallLifetime(c) ==
    /\ c \in DOMAIN profiles
    /\ ret' = [op |-> "lifetime", self |-> c, distance_to_travel |-> 0,
               fuel_available |-> 0,
               result |-> calculate_lifetime_emissions(profiles[c])]
    /\ UNCHANGED <<profiles, shown>>

\* Variant: the trip is recorded in the object's distance_traveled.
CallTrip_records_distance(c) ==
    /\ c \in DOMAIN profiles
    /\ \E d \in TripDistances, fa \in FuelAvailables :
          /\ ret' = [op |-> "trip", self |-> c, distance_to_travel |-> d,
                     fuel_available |-> fa,
                     result |-> calculate_next_trip_emissions(profiles[c], d, fa)]
          /\ profiles' = [profiles EXCEPT ![c].distance_traveled =
                             IF d > 0 THEN @ + d ELSE @]
    /\ UNCHANGED shown

CallTrip(c) ==
    /\ c \in DOMAIN profiles
    /\ \E d \in TripDistances, fa \in FuelAvailables :
          ret' = [op |-> "trip", self |-> c, distance_to_travel |-> d,
                  fuel_available |-> fa,
                  result |-> calculate_next_trip_emissions(profiles[c], d, fa)]
    /\ UNCHANGED <<profiles, shown>>

Next ==
    \/ \E c \in Callers : Construct(c)
    \/ \E c \in Callers : CallLifetime(c)
    \/ \E c \in Callers : CallTrip(c)

Spec == Init /\ [][Next]_vars

(***************************************************************************)
(* The "Vehicle Estimator" page of the dashboard.  The widgets restrict    *)
(* the inputs: the fuel type is one of the five of the table, the fuel     *)
(* economy is at least 1, the distances and the age are at least 0, the    *)
(* distance to travel is at least 1.                                       *)
(***************************************************************************)
UiVehicleTypes   == {"Car", "Bus", "Bike", "Truck"}
UiFuelTypes      == {"Petrol", "Diesel", "CNG", "Electric", "Hybrid"}
UiEngineSizes    == {1500}
UiFuelEconomies  == 1..MaxEconomy
\* 50000 is the value the distance widget starts with.
UiDistances      == {0, MaxDistance, 2 * MaxDistance, 50000}
UiAges           == 0..MaxAge
UiTripDistances  == {MaxDistance, 2 * MaxDistance}
UiFuelAvailables == {0, MaxFuel}

\* `if emissions:` is false for None and for the number 0.
Truthy(o) == IsNum(o) /\ o.n # 0

\* Average tree absorbs 21.77 kg CO2/year.
KgPerTree == Rat(2177, 100)

TreesNeeded(emissions) == RatTrunc(RatDiv(emissions, KgPerTree))

\* Variant: the score has no floor.
EcoScore_no_floor(emissions) ==
    RatSub(RatInt(10), RatDiv(emissions, RatInt(10000)))

EcoScore(emissions) ==
    RatMax(RatInt(1), RatSub(RatInt(10), RatDiv(emissions, RatInt(10000))))

LifetimeTab ==
    /\ \E vt \in UiVehicleTypes, ft \in UiFuelTypes, es \in UiEngineSizes,
          fe \in UiFuelEconomies, dt \in UiDistances, va \in UiAges :
          LET estimator == __init__(vt, ft, es, fe, dt, va)
              emissions == calculate_lifetime_emissions(estimator)
          IN  shown' =
                IF Truthy(emissions)
                THEN [NothingShown EXCEPT
                        !.tab = "lifetime", !.estimator = estimator,
                        !.emissions = emissions, !.success = TRUE,
                        !.trees = TreesNeeded(Val(emissions)),
                        !.eco_score = EcoScore(Val(emissions))]
                ELSE [NothingShown EXCEPT
                        !.tab = "lifetime", !.estimator = estimator,
                        !.emissions = emissions]
    /\ UNCHANGED <<profiles, ret>>

TripTab ==
    /\ \E vt \in UiVehicleTypes, ft \in UiFuelTypes, es \in UiEngineSizes,
          fe \in UiFuelEconomies, va \in UiAges,
          d \in UiTripDistances, fa \in UiFuelAvailables :
          LET estimator == __init__(vt, ft, es, fe, 0, va)
              emissions == calculate_next_trip_emissions(estimator, d, fa)
              fuel_needed == RatDiv(RatInt(d), RatInt(fe))
          IN  shown' =
                IF Truthy(emissions)
                THEN [NothingShown EXCEPT
                        !.tab = "trip", !.estimator = estimator,
                        !.distance_to_travel = d, !.fuel_available = fa,
                        !.emissions = emissions, !.success = TRUE,
                        !.fuel_needed = fuel_needed,
                        !.fuel_status =
                            IF RatLeq(fuel_needed, RatInt(fa))
                            THEN "Sufficient" ELSE "Insufficient"]
                ELSE [NothingShown EXCEPT
                        !.tab = "trip", !.estimator = estimator,
                        !.distance_to_travel = d, !.fuel_available = fa,
                        !.emissions = emissions]
    /\ UNCHANGED <<profiles, ret>>

DashNext == LifetimeTab \/ TripTab

DashSpec == Init /\ [][DashNext]_vars

(***************************************************************************)
(* Properties of the estimator, checked under Spec.                        *)
(***************************************************************************)
\* The object the last call was made on.
Self == profiles[ret.self]

Called     == ret.op # "none"
InTable(p) == p.fuel_type \in {"Petrol", "Diesel", "CNG", "Electric", "Hybrid"}

\* C1: a call on a profile whose fuel type is in the table and whose
\* fuel_economy is 0 (a trip call with a positive distance) signals a
\* DomainError, which is neither None nor a division fault nor a number.
C1_ZeroEconomyIsDomainError ==
    (/\ Called
     /\ InTable(Self)
     /\ Self.fuel_economy = 0
     /\ (ret.op = "trip" => ret.distance_to_travel > 0))
    => ret.result = Raise("DomainError")

\* C2: for a fuel type that is not in the table both operations return None,
\* whatever the other fields and arguments are, and raise nothing.
C2_UnknownFuelIsUnrated ==
    (Called /\ ~InTable(Self)) => ret.result = None

C2_Witness ==
    /\ ret.op = "trip" /\ ret.self = "b" /\ "a" \in DOMAIN profiles
    /\ Self.fuel_type = "LPG" /\ Self.fuel_economy = 0
    /\ ret.distance_to_travel > 0 /\ ret.result = None
    /\ profiles["a"].fuel_type = "LPG" /\ profiles["a"].fuel_economy > 0

\* C3: for an Electric profile with valid inputs both operations return the
\* number 0, never None.
C3_ElectricIsZero ==
    (/\ Called
     /\ Self.fuel_type = "Electric"
     /\ Self.fuel_economy > 0
     /\ Self.distance_traveled >= 0
     /\ Self.vehicle_age >= 0
     /\ (ret.op = "trip" => ret.distance_to_travel > 0))
    => ret.result = Num(RatInt(0))

C3_Witness ==
    /\ ret.op = "trip" /\ Self.fuel_type = "Electric"
    /\ Self.fuel_economy = MaxEconomy /\ Self.distance_traveled > 0
    /\ Self.vehicle_age > 0 /\ ret.distance_to_travel > 0
    /\ ret.result = Num(RatInt(0))

\* C5: a trip call with distance_to_travel <= 0 on a profile with non-zero
\* fuel_economy returns None for every fuel type and every fuel_available.
C5_NonPositiveTripIsUnrated ==
    (/\ ret.op = "trip"
     /\ Self.fuel_economy # 0
     /\ ret.distance_to_travel <= 0)
    => ret.result = None

C5_Witness ==
    /\ ret.op = "trip" /\ Self.fuel_type = "Petrol"
    /\ Self.fuel_economy = MaxEconomy
    /\ ret.distance_to_travel = 0 /\ ret.fuel_available > 0
    /\ ret.result = None

\* C6: for a fuel type of the table other than Electric and strictly positive
\* distance_traveled, fuel_economy and vehicle_age, the lifetime result is a
\* number strictly greater than 0.
C6_LifetimePositive ==
    (/\ ret.op = "lifetime"
     /\ InTable(Self) /\ Self.fuel_type # "Electric"
     /\ Self.distance_traveled > 0
     /\ Self.fuel_economy > 0
     /\ Self.vehicle_age > 0)
    => (IsNum(ret.result) /\ ret.result.n > 0)

C6_Witness ==
    /\ ret.op = "lifetime" /\ Self.fuel_type = "Hybrid"
    /\ Self.distance_traveled = MaxDistance /\ Self.fuel_economy = MaxEconomy
    /\ Self.vehicle_age > 0
    /\ IsNum(ret.result) /\ ret.result.n > 0

\* q has the fields of p except for twice its distance_traveled.
DoubleDistance(p, q) ==
    /\ q.distance_traveled = 2 * p.distance_traveled
    /\ q.vehicle_type = p.vehicle_type
    /\ q.fuel_type = p.fuel_type
    /\ q.engine_size = p.engine_size
    /\ q.fuel_economy = p.fuel_economy
    /\ q.vehicle_age = p.vehicle_age

\* C7: when two profiles differ only in distance_traveled, one having twice
\* the distance of the other (fuel type in the table, fuel_economy > 0), the
\* lifetime result of the second is exactly twice that of the first.
C7_DoublingDistanceDoubles ==
    \A c \in DOMAIN profiles :
        (/\ ret.op = "lifetime"
         /\ InTable(Self) /\ Self.fuel_economy > 0
         /\ DoubleDistance(Self, profiles[c]))
        => /\ IsNum(ret.result)
           /\ calculate_lifetime_emissions(profiles[c])
                = Num(RatMul(RatInt(2), Val(ret.result)))

C7_Witness ==
    /\ ret.op = "lifetime" /\ ret.self = "a" /\ "b" \in DOMAIN profiles
    /\ Self.fuel_type = "Diesel" /\ Self.fuel_economy = MaxEconomy
    /\ Self.distance_traveled = MaxDistance /\ Self.vehicle_age > 0
    /\ DoubleDistance(Self, profiles["b"])
    /\ IsNum(ret.result) /\ ret.result.n > 0

\* The outcome of the call r made alone on a freshly constructed object with
\* the constructor arguments of p.
Fresh(p) ==
    __init__(p.vehicle_type, p.fuel_type, p.engine_size, p.fuel_economy,
             p.distance_traveled, p.vehicle_age)

AloneOnFresh(r, p) ==
    IF r.op = "lifetime"
    THEN calculate_lifetime_emissions(Fresh(p))
    ELSE calculate_next_trip_emissions(Fresh(p), r.distance_to_travel,
                                       r.fuel_available)

\* C8: in every step, every object that exists keeps all its fields, its
\* age_factor and its table; the call of the step returns what the same call
\* returns alone on a freshly constructed identical object; and a lifetime
\* call that follows a lifetime call on the same object returns the same.
C8_CallsChangeNothing ==
    [][/\ \A c \in DOMAIN profiles :
             c \in DOMAIN profiles' /\ profiles'[c] = profiles[c]
       /\ ret'.op # "none" =>
             ret'.result = AloneOnFresh(ret', profiles'[ret'.self])
       /\ (ret.op = "lifetime" /\ ret'.op = "lifetime"
             /\ ret'.self = ret.self) => ret'.result = ret.result]_vars

C8_Witness ==
    /\ ret.op = "lifetime" /\ ret.self = "a"
    /\ DOMAIN profiles = {"a", "b"}
    /\ profiles["a"].fuel_type = "CNG" /\ profiles["a"].fuel_economy = MaxEconomy
    /\ profiles["a"].distance_traveled = MaxDistance
    /\ profiles["b"] # profiles["a"]
    /\ IsNum(ret.result) /\ ret.result.n > 0

\* C9: for a fuel type of the table, fuel_economy > 0 and d > 0, the trip
\* result equals the lifetime result of the profile with distance_traveled
\* replaced by d (keeping the stored age_factor); it is the same for every
\* fuel_available and for every distance_traveled of the profile.
C9_TripIsLifetimeOfDistance ==
    (/\ ret.op = "trip"
     /\ InTable(Self) /\ Self.fuel_economy > 0
     /\ ret.distance_to_travel > 0)
    => /\ ret.result = calculate_lifetime_emissions(
                          [Self EXCEPT !.distance_traveled =
                                           ret.distance_to_travel])
       /\ \A fa \in FuelAvailables, dt \in Distances :
             calculate_next_trip_emissions(
                 [Self EXCEPT !.distance_traveled = dt],
                 ret.distance_to_travel, fa) = ret.result

C9_Witness ==
    /\ ret.op = "trip" /\ Self.fuel_type = "Petrol" /\ Self.fuel_economy = MaxEconomy
    /\ Self.distance_traveled = 2 * MaxDistance
    /\ ret.distance_to_travel = MaxDistance /\ ret.fuel_available = 0
    /\ Self.vehicle_age > 0
    /\ IsNum(ret.result) /\ ret.result.n > 0

\* C10: the age_factor of every object is 1 + vehicle_age / 100, which is 1
\* at age 0 and larger for a larger age, and every numeric result is
\* (distance / fuel_economy * factor) multiplied by that stored value.
C10_AgeFactor ==
    /\ \A c \in DOMAIN profiles :
          /\ profiles[c].age_factor.n * 100
                = (100 + profiles[c].vehicle_age) * profiles[c].age_factor.d
          /\ profiles[c].vehicle_age = 0 => profiles[c].age_factor = RatInt(1)
    /\ \A c1, c2 \in DOMAIN profiles :
          profiles[c1].vehicle_age < profiles[c2].vehicle_age
             => RatLt(profiles[c1].age_factor, profiles[c2].age_factor)
    /\ (Called /\ IsNum(ret.result)) =>
          LET dist == IF ret.op = "trip" THEN ret.distance_to_travel
                                         ELSE Self.distance_traveled
          IN  Val(ret.result) =
                 RatMul(RatMul(Rat(dist, Self.fuel_economy),
                               Self.emission_factors[Self.fuel_type]),
                        Self.age_factor)

C10_Witness ==
    /\ DOMAIN profiles = {"a", "b"}
    /\ profiles["a"].vehicle_age = 0 /\ profiles["b"].vehicle_age = MaxAge
    /\ profiles["a"].age_factor = RatInt(1)
    /\ RatLt(profiles["a"].age_factor, profiles["b"].age_factor)
    /\ ret.op = "lifetime" /\ ret.self = "b"
    /\ IsNum(ret.result) /\ ret.result.n > 0

\* The object of caller c was constructed with the arguments of the example.
IsExample(c) ==
    /\ c \in DOMAIN profiles
    /\ profiles[c].fuel_type = "Petrol"
    /\ profiles[c].fuel_economy = 15
    /\ profiles[c].distance_traveled = 50000
    /\ profiles[c].vehicle_age = 5

\* (50000 / 15) * 2.31 * 1.05, computed apart from the estimator.
ExampleLifetime == RatMul(RatMul(Rat(50000, 15), Rat(231, 100)), Rat(105, 100))

\* C11 as amended: for the profile (Petrol, 15, 50000, 5) the age factor is
\* 1.05 and the lifetime result is (50000 / 15) * 2.31 * 1.05, which is
\* 8085 kg.
C11_ExampleLifetime ==
    \A c \in Callers :
        IsExample(c) =>
            /\ profiles[c].age_factor = Rat(105, 100)
            /\ (ret.op = "lifetime" /\ ret.self = c) =>
                  /\ ret.result = Num(ExampleLifetime)
                  /\ ret.result = Num(RatInt(8085))

C11_Witness ==
    /\ IsExample("a") /\ ret.op = "lifetime" /\ ret.self = "a"
    /\ ret.result = Num(RatInt(8085))

\* C11 as stated: the lifetime result of that profile is approximately
\* 8085.5 kg, that is, 8085.5 when rounded to the one decimal the figure is
\* given with (8085.45 <= result < 8085.55).
C11_ExampleIs8085_5 ==
    \A c \in Callers :
        (IsExample(c) /\ ret.op = "lifetime" /\ ret.self = c) =>
            /\ profiles[c].age_factor = Rat(105, 100)
            /\ ret.result = Num(ExampleLifetime)
            /\ RatLeq(Rat(808545, 100), Val(ret.result))
            /\ RatLt(Val(ret.result), Rat(808555, 100))

(***************************************************************************)
(* Properties of the dashboard, checked under DashSpec.                    *)
(***************************************************************************)
\* C4: whenever the calculator returned a number, 0 included, the page shows
\* the result with its derived metrics; only None suppresses them.
C4_NumberIsShown ==
    (shown.tab # "none" /\ IsNum(shown.emissions)) => shown.success

\* The last click showed the metrics of a lifetime result.
LifetimeShown == shown.tab = "lifetime" /\ shown.success

\* 10 - mass / 10000, computed apart from the handler.
TenMinus(mass) == RatSub(RatInt(10), RatDiv(mass, RatInt(10000)))

\* C12 as amended: the eco score shown equals max(1, 10 - mass / 10000): it
\* is 10 - mass / 10000 up to 90000 kg and 1 above, so never below 1; no
\* upper bound is applied, and as every mass shown is positive the score is
\* always below 10.
C12_EcoScore ==
    LifetimeShown =>
        LET mass == Val(shown.emissions)
        IN  /\ RatLeq(RatInt(1), shown.eco_score)
            /\ RatLeq(mass, RatInt(90000)) => shown.eco_score = TenMinus(mass)
            /\ RatLt(RatInt(90000), mass) => shown.eco_score = RatInt(1)
            /\ RatLt(RatInt(0), mass)
            /\ RatLt(shown.eco_score, RatInt(10))

C12_Witness ==
    /\ LifetimeShown
    /\ RatLt(RatInt(90000), Val(shown.emissions))
    /\ RatLt(TenMinus(Val(shown.emissions)), RatInt(1))
    /\ shown.eco_score = RatInt(1)

\* C12 as stated: the score is max(1, 10 - mass / 10000), never below 1, and
\* a very low mass (here: below 1 kg) yields a score above 10.
C12_LowMassAboveTen ==
    LifetimeShown =>
        LET mass == Val(shown.emissions)
        IN  /\ RatLeq(RatInt(1), shown.eco_score)
            /\ shown.eco_score = RatMax(RatInt(1), TenMinus(mass))
            /\ RatLt(mass, RatInt(1)) => RatLt(RatInt(10), shown.eco_score)

====
